---------------------------- MODULE Spec2Model ----------------------------
(***************************************************************************)
(* A model of nginx-monitor.py: the log parser (NginxLogParser) and the    *)
(* refresh scheduling of the dashboard application (NginxMonitorApp).      *)
(*                                                                         *)
(* Text is modelled as sequences of one-character strings, so that the     *)
(* regular expressions, int(), split(), strip(), lower() and the slices    *)
(* of the source are computed character by character.                      *)
(***************************************************************************)
EXTENDS Integers, Sequences, FiniteSets, TLC

(***************************************************************************)
(* Characters                                                              *)
(***************************************************************************)

\* The printable ASCII characters in code-point order (32 .. 126); the entry
\* for the backquote (96), which no modelled text holds, is a placeholder.
AsciiTable ==
    << " ", "!", "\"", "#", "$", "%", "&", "'", "(", ")", "*", "+", ",", "-", ".", "/",
       "0", "1", "2", "3", "4", "5", "6", "7", "8", "9", ":", ";", "<", "=", ">", "?",
       "@", "A", "B", "C", "D", "E", "F", "G", "H", "I", "J", "K", "L", "M", "N", "O",
       "P", "Q", "R", "S", "T", "U", "V", "W", "X", "Y", "Z", "[", "\\", "]", "^", "_",
       "BACKQUOTE", "a", "b", "c", "d", "e", "f", "g", "h", "i", "j", "k", "l", "m", "n", "o",
       "p", "q", "r", "s", "t", "u", "v", "w", "x", "y", "z", "{", "|", "}", "~" >>

\* ord(c) - 31 for a printable character c.
AsciiIndex == [c \in {AsciiTable[i] : i \in 1..Len(AsciiTable)} |->
                  CHOOSE i \in 1..Len(AsciiTable) : AsciiTable[i] = c]

\* ord(c); tab and newline are the non-printable characters the model uses.
Ord(c) == IF c = "\t" THEN 9 ELSE IF c = "\n" THEN 10 ELSE AsciiIndex[c] + 31

\* The regular expression classes \s, \S and \d on the model's characters.
IsSpace(c) == c \in {" ", "\t", "\n"}

IsDigit(c) == c \in {"0", "1", "2", "3", "4", "5", "6", "7", "8", "9"}

DigitVal(c) == Ord(c) - 48

\* str.lower() on one character.
LowerChar(c) == IF Ord(c) >= 65 /\ Ord(c) <= 90
                THEN AsciiTable[AsciiIndex[c] + 32] ELSE c

\* str.lower()
Lower(s) == [i \in 1..Len(s) |-> LowerChar(s[i])]

\* s[:n]
Prefix(s, n) == IF Len(s) <= n THEN s ELSE SubSeq(s, 1, n)

\* s[i:] for a 0-based offset i
From(s, i) == SubSeq(s, i + 1, Len(s))

\* sub in s
Contains(s, sub) ==
    \E i \in 0..(Len(s) - Len(sub)) : SubSeq(s, i + 1, i + Len(sub)) = sub

\* str.strip(): s without its leading and trailing whitespace.
Strip(s) ==
    LET solid == {i \in 1..Len(s) : ~IsSpace(s[i])}
    IN  IF solid = {} THEN <<>>
        ELSE SubSeq(s, CHOOSE i \in solid : \A j \in solid : i <= j,
                       CHOOSE i \in solid : \A j \in solid : j <= i)

\* str.split(sep) for a one-character separator: the pieces between the
\* occurrences of sep, one more piece than there are occurrences.
Split(s, sep) ==
    LET at     == {i \in 1..Len(s) : s[i] = sep}
        nth(k) == IF k = 0 THEN 0
                  ELSE IF k > Cardinality(at) THEN Len(s) + 1
                  ELSE CHOOSE p \in at : Cardinality({q \in at : q < p}) = k - 1
    IN  [k \in 1..(Cardinality(at) + 1) |-> SubSeq(s, nth(k - 1) + 1, nth(k) - 1)]

\* Python's order on strings: lexicographic by code point.
RECURSIVE StrLess(_, _)
StrLess(a, b) ==
    IF b = <<>> THEN FALSE
    ELSE IF a = <<>> THEN TRUE
    ELSE IF Head(a) # Head(b) THEN Ord(Head(a)) < Ord(Head(b))
    ELSE StrLess(Tail(a), Tail(b))

(***************************************************************************)
(* LOG_PATTERN and the regular expression engine                           *)
(***************************************************************************)

\* Whether character c is in class cls: "S" is \S, "s" is \s, "d" is \d,
\* "nb" is [^\]], "nq" is [^"], and any other cls is that literal character.
InClass(c, cls) ==
    CASE cls = "S"  -> ~IsSpace(c)
      [] cls = "s"  -> IsSpace(c)
      [] cls = "d"  -> IsDigit(c)
      [] cls = "nb" -> c # "]"
      [] cls = "nq" -> c # "\""
      [] OTHER      -> c = cls

\* One item of a pattern: a class, the least and the greatest number of
\* repetitions (0 for no greatest number).
Item(cls, lo, hi) == [cls |-> cls, lo |-> lo, hi |-> hi]

Plus(cls) == Item(cls, 1, 0)

Star(cls) == Item(cls, 0, 0)

Lit(c) == Item(c, 1, 1)

\* The items of LOG_PATTERN in order; the named groups are items
\* 1 (ip), 8 (time), 12 (method), 14 (path), 16 (protocol), 19 (status),
\* 21 (size), 24 (referer) and 28 (agent).
LOG_PATTERN ==
    << Plus("S"), Plus("s"),
       Plus("S"), Plus("s"),
       Plus("S"), Plus("s"),
       Lit("["), Plus("nb"), Lit("]"), Plus("s"),
       Lit("\""), Plus("S"), Plus("s"),
       Plus("S"), Plus("s"),
       Plus("nq"), Lit("\""), Plus("s"),
       Plus("d"), Plus("s"),
       Plus("S"), Plus("s"),
       Lit("\""), Star("nq"), Lit("\""), Plus("s"),
       Lit("\""), Star("nq"), Lit("\"") >>

\* The longest run of characters of the item's class in s from position pos
\* (1-based), at most the item's greatest number of repetitions.
RECURSIVE RunLen(_, _, _, _)
RunLen(s, pos, it, n) ==
    IF pos + n > Len(s) \/ (it.hi # 0 /\ n >= it.hi) THEN n
    ELSE IF InClass(s[pos + n], it.cls) THEN RunLen(s, pos, it, n + 1)
    ELSE n

NoMatch == [ok |-> FALSE, ends |-> <<>>]

\* re.match of the items pat[i..] on s from position pos, as the backtracking
\* engine does it: every item greedy, giving characters back one at a time.
\* The result holds the position of the last character of each item.
RECURSIVE MatchFrom(_, _, _, _)
RECURSIVE TryLen(_, _, _, _, _)
MatchFrom(pat, s, i, pos) ==
    IF i > Len(pat) THEN [ok |-> TRUE, ends |-> <<>>]
    ELSE TryLen(pat, s, i, pos, RunLen(s, pos, pat[i], 0))

TryLen(pat, s, i, pos, n) ==
    IF n < pat[i].lo THEN NoMatch
    ELSE LET r == MatchFrom(pat, s, i + 1, pos + n)
         IN  IF r.ok THEN [ok |-> TRUE, ends |-> <<pos + n - 1>> \o r.ends]
             ELSE TryLen(pat, s, i, pos, n - 1)

\* pattern.match(s): anchored at the start of s.
ReMatch(pat, s) == MatchFrom(pat, s, 1, 1)

\* The text item i of a match took.
Group(s, m, i) == SubSeq(s, (IF i = 1 THEN 1 ELSE m.ends[i - 1] + 1), m.ends[i])

(***************************************************************************)
(* int()                                                                   *)
(***************************************************************************)

\* Whether s is a run of decimal digits with single underscores between
\* digits, the digit strings int() accepts.
RECURSIVE IsDigitString(_, _)
IsDigitString(s, afterDigit) ==
    IF s = <<>> THEN afterDigit
    ELSE IF IsDigit(Head(s)) THEN IsDigitString(Tail(s), TRUE)
    ELSE IF Head(s) = "_" THEN afterDigit /\ Tail(s) # <<>> /\ IsDigit(s[2])
                               /\ IsDigitString(Tail(s), FALSE)
    ELSE FALSE

RECURSIVE DigitsValue(_, _)
DigitsValue(s, acc) ==
    IF s = <<>> THEN acc
    ELSE IF Head(s) = "_" THEN DigitsValue(Tail(s), acc)
    ELSE DigitsValue(Tail(s), 10 * acc + DigitVal(Head(s)))

\* int(s) of a Python string: surrounding whitespace is dropped, one sign is
\* allowed; ok is FALSE where int() raises ValueError.
PyInt(s) ==
    LET t    == Strip(s)
        sgn  == t # <<>> /\ Head(t) \in {"+", "-"}
        body == IF sgn THEN Tail(t) ELSE t
    IN  IF IsDigitString(body, FALSE)
        THEN [ok |-> TRUE,
              val |-> IF sgn /\ Head(t) = "-" THEN 0 - DigitsValue(body, 0)
                      ELSE DigitsValue(body, 0)]
        ELSE [ok |-> FALSE, val |-> 0]

(***************************************************************************)
(* NginxLogParser: access log                                              *)
(***************************************************************************)

None == [none |-> TRUE]

\* _parse_access_line: the groups of a matching line with size and status
\* converted, or None.
_parse_access_line(line) ==
    LET m == ReMatch(LOG_PATTERN, line)
    IN  IF m.ok
        THEN LET sizeTok   == Group(line, m, 21)
                 statusTok == Group(line, m, 19)
                 sz        == PyInt(sizeTok)
                 st        == PyInt(statusTok)
             IN  [ip       |-> Group(line, m, 1),
                  time     |-> Group(line, m, 8),
                  method   |-> Group(line, m, 12),
                  path     |-> Group(line, m, 14),
                  protocol |-> Group(line, m, 16),
                  status   |-> IF st.ok THEN st.val ELSE 0,
                  size     |-> IF sizeTok # <<"-">>
                               THEN (IF sz.ok THEN sz.val ELSE 0)
                               ELSE 0,
                  referer  |-> Group(line, m, 24),
                  agent    |-> Group(line, m, 28)]
        ELSE None


\* _read_log_tail: the last n lines of the file as tail prints them, the
\* output stripped and split at the newlines. A file is a record of its
\* kind ("ok", "missing", or "error" when running tail raises, a timeout
\* included) and its lines.
RECURSIVE JoinLines(_)
JoinLines(ls) == IF ls = <<>> THEN <<>> ELSE Head(ls) \o <<"\n">> \o JoinLines(Tail(ls))

LastLines(ls, n) == IF Len(ls) <= n THEN ls ELSE SubSeq(ls, Len(ls) - n + 1, Len(ls))

_read_log_tail(file, n) ==
    IF file.kind = "missing" THEN <<>>
    ELSE IF file.kind = "error" THEN <<>>
    ELSE LET stdout == JoinLines(LastLines(file.lines, n))
         IN  IF Strip(stdout) # <<>> THEN Split(Strip(stdout), "\n") ELSE <<>>

\* parse_access_log: the parsed entries of the non-empty lines that match.
RECURSIVE ParseLinesUntilMismatch(_)
ParseLinesUntilMismatch(lines) ==
    IF lines = <<>> THEN <<>>
    ELSE LET line   == Head(lines)
             parsed == _parse_access_line(line)
         IN  IF line # <<>> /\ parsed # None
             THEN <<parsed>> \o ParseLinesUntilMismatch(Tail(lines))
             ELSE <<>>

RECURSIVE ParseLines(_)
ParseLines(lines) ==
    IF lines = <<>> THEN <<>>
    ELSE LET line   == Head(lines)
             parsed == _parse_access_line(line)
         IN  IF line # <<>> /\ parsed # None
             THEN <<parsed>> \o ParseLines(Tail(lines))
             ELSE ParseLines(Tail(lines))

parse_access_log(access_log, tail_lines) ==
    ParseLines(_read_log_tail(access_log, tail_lines))

(***************************************************************************)
(* Counter, defaultdict, most_common, sorted                               *)
(***************************************************************************)

\* A Counter or dict is the sequence of its <<key, value>> items in
\* insertion order. d[k] += n, k entering with value n when it is new.
IncAssigning(d, k, n) ==
    IF \E i \in 1..Len(d) : d[i][1] = k
    THEN [i \in 1..Len(d) |-> IF d[i][1] = k THEN <<k, n>> ELSE d[i]]
    ELSE Append(d, <<k, n>>)

Inc(d, k, n) ==
    IF \E i \in 1..Len(d) : d[i][1] = k
    THEN [i \in 1..Len(d) |-> IF d[i][1] = k THEN <<k, d[i][2] + n>> ELSE d[i]]
    ELSE Append(d, <<k, n>>)

\* d[k] for a key of d
Get(d, k) == (d[CHOOSE i \in 1..Len(d) : d[i][1] = k])[2]

\* sorted(items, key=lambda x: x[col], reverse=True): a stable sort, so items
\* with equal keys keep their order.
InsertDesc(sorted, e, col) ==
    LET n == Cardinality({i \in 1..Len(sorted) : sorted[i][col] >= e[col]})
    IN  SubSeq(sorted, 1, n) \o <<e>> \o SubSeq(sorted, n + 1, Len(sorted))

RECURSIVE SortDescAcc(_, _, _)
SortDescAcc(items, col, sorted) ==
    IF items = <<>> THEN sorted
    ELSE SortDescAcc(Tail(items), col, InsertDesc(sorted, Head(items), col))

SortDesc(items, col) == SortDescAcc(items, col, <<>>)

\* Counter.most_common(n): heapq.nlargest(n, items, key=count), which equals
\* sorted(items, key=count, reverse=True)[:n].
most_common(d, n) == Prefix(SortDesc(d, 2), n)

\* sorted(d.items()) for string keys: ascending by key.
InsertAsc(sorted, e) ==
    LET n == Cardinality({i \in 1..Len(sorted) : ~StrLess(e[1], sorted[i][1])})
    IN  SubSeq(sorted, 1, n) \o <<e>> \o SubSeq(sorted, n + 1, Len(sorted))

RECURSIVE SortAscAcc(_, _)
SortAscAcc(items, sorted) ==
    IF items = <<>> THEN sorted
    ELSE SortAscAcc(Tail(items), InsertAsc(sorted, Head(items)))

SortItems(d) == SortAscAcc(d, <<>>)

\* sum(c for s, c in d.items() if lo <= s < hi)
RECURSIVE SumRangeInclusive(_, _, _)
SumRangeInclusive(d, lo, hi) ==
    IF d = <<>> THEN 0
    ELSE (IF lo <= Head(d)[1] /\ Head(d)[1] <= hi THEN Head(d)[2] ELSE 0)
         + SumRangeInclusive(Tail(d), lo, hi)

RECURSIVE SumRange(_, _, _)
SumRange(d, lo, hi) ==
    IF d = <<>> THEN 0
    ELSE (IF lo <= Head(d)[1] /\ Head(d)[1] < hi THEN Head(d)[2] ELSE 0)
         + SumRange(Tail(d), lo, hi)

(***************************************************************************)
(* NginxLogParser: user agents and the error log                           *)
(***************************************************************************)

\* _simplify_agent
_simplify_agent_brands_first(agent) ==
    LET agent_lower == Lower(agent)
        has(w) == Contains(agent_lower, w)
    IN  IF has(<<"e", "d", "g", "e">>) \/ has(<<"e", "d", "g", "/">>)
            THEN <<"E", "d", "g", "e">>
        ELSE IF has(<<"f", "i", "r", "e", "f", "o", "x">>)
            THEN <<"F", "i", "r", "e", "f", "o", "x">>
        ELSE IF has(<<"c", "h", "r", "o", "m", "e">>)
            THEN <<"C", "h", "r", "o", "m", "e">>
        ELSE IF has(<<"s", "a", "f", "a", "r", "i">>)
            THEN <<"S", "a", "f", "a", "r", "i">>
        ELSE IF has(<<"o", "p", "e", "r", "a">>)
            THEN <<"O", "p", "e", "r", "a">>
        ELSE IF has(<<"g", "o", "o", "g", "l", "e", "b", "o", "t">>)
            THEN <<"G", "o", "o", "g", "l", "e", "b", "o", "t">>
        ELSE IF has(<<"b", "i", "n", "g", "b", "o", "t">>)
            THEN <<"B", "i", "n", "g", "b", "o", "t">>
        ELSE IF has(<<"b", "o", "t">>) \/ has(<<"c", "r", "a", "w", "l", "e", "r">>) \/ has(<<"s", "p", "i", "d", "e", "r">>)
            THEN <<"O", "t", "h", "e", "r", " ", "B", "o", "t">>
        ELSE IF has(<<"c", "u", "r", "l">>)
            THEN <<"c", "u", "r", "l">>
        ELSE IF has(<<"w", "g", "e", "t">>)
            THEN <<"w", "g", "e", "t">>
        ELSE IF has(<<"p", "y", "t", "h", "o", "n">>)
            THEN <<"P", "y", "t", "h", "o", "n">>
        ELSE IF agent = <<"-">> \/ agent = <<>> THEN <<"E", "m", "p", "t", "y">>
        ELSE IF Len(agent) > 30 THEN Prefix(agent, 30) \o <<".", ".", ".">>
        ELSE agent

_simplify_agent(agent) ==
    LET agent_lower == Lower(agent)
        has(w) == Contains(agent_lower, w)
    IN  IF has(<<"g","o","o","g","l","e","b","o","t">>)
            THEN <<"G","o","o","g","l","e","b","o","t">>
        ELSE IF has(<<"b","i","n","g","b","o","t">>)
            THEN <<"B","i","n","g","b","o","t">>
        ELSE IF has(<<"b","o","t">>) \/ has(<<"c","r","a","w","l","e","r">>)
                \/ has(<<"s","p","i","d","e","r">>)
            THEN <<"O","t","h","e","r"," ","B","o","t">>
        ELSE IF has(<<"c","u","r","l">>) THEN <<"c","u","r","l">>
        ELSE IF has(<<"w","g","e","t">>) THEN <<"w","g","e","t">>
        ELSE IF has(<<"p","y","t","h","o","n">>) THEN <<"P","y","t","h","o","n">>
        ELSE IF has(<<"e","d","g","e">>) \/ has(<<"e","d","g","/">>)
            THEN <<"E","d","g","e">>
        ELSE IF has(<<"f","i","r","e","f","o","x">>)
            THEN <<"F","i","r","e","f","o","x">>
        ELSE IF has(<<"c","h","r","o","m","e">>) THEN <<"C","h","r","o","m","e">>
        ELSE IF has(<<"s","a","f","a","r","i">>) THEN <<"S","a","f","a","r","i">>
        ELSE IF has(<<"o","p","e","r","a">>) THEN <<"O","p","e","r","a">>
        ELSE IF agent = <<"-">> \/ agent = <<>> THEN <<"E","m","p","t","y">>
        ELSE IF Len(agent) > 30 THEN Prefix(agent, 30) \o <<".",".",".">>
        ELSE agent

\* The severity names of level_pattern, in the order of its alternation.
Levels ==
    << <<"e","m","e","r","g">>, <<"a","l","e","r","t">>, <<"c","r","i","t">>,
       <<"e","r","r","o","r">>, <<"w","a","r","n">>, <<"n","o","t","i","c","e">>,
       <<"i","n","f","o">>, <<"d","e","b","u","g">> >>

\* Whether level_pattern matches line at position pos (1-based) with level lv.
LevelAt(line, pos, lv) ==
    /\ pos + Len(lv) + 1 <= Len(line)
    /\ line[pos] = "["
    /\ SubSeq(line, pos + 1, pos + Len(lv)) = lv
    /\ line[pos + Len(lv) + 1] = "]"

\* level_pattern.search(line): the leftmost match, as its level and
\* match.end(), or None.
LevelSearch(line) ==
    LET hits == {pos \in 1..Len(line) : \E k \in 1..Len(Levels) : LevelAt(line, pos, Levels[k])}
    IN  IF hits = {} THEN None
        ELSE LET pos == CHOOSE p \in hits : \A q \in hits : p <= q
                 k   == CHOOSE j \in 1..Len(Levels) :
                            /\ LevelAt(line, pos, Levels[j])
                            /\ \A h \in 1..(j - 1) : ~LevelAt(line, pos, Levels[h])
             IN  [level |-> Levels[k], end |-> pos + Len(Levels[k]) + 1]

Emerg == Levels[1]

Alert == Levels[2]

Crit == Levels[3]

Error == Levels[4]

\* The loop of _parse_error_log over the tail lines.
RECURSIVE ErrorLoop(_, _)
ErrorLoop(lines, acc) ==
    IF lines = <<>> THEN acc
    ELSE LET line  == Head(lines)
             match == LevelSearch(line)
         IN  IF line = <<>> \/ match = None THEN ErrorLoop(Tail(lines), acc)
             ELSE LET level == match.level
                      msg   == Prefix(Strip(From(line, match.end)), 80)
                      a1    == [acc EXCEPT !.levels = Inc(@, level, 1)]
                      a2    == IF level \in {Emerg, Alert, Crit, Error}
                               THEN [a1 EXCEPT !.error_messages = Inc(@, msg, 1)]
                               ELSE a1
                      a3    == IF level \in {Emerg, Alert, Crit}
                               THEN [a2 EXCEPT !.recent_errors =
                                         Append(@, <<level, Prefix(line, 120)>>)]
                               ELSE a2
                  IN  ErrorLoop(Tail(lines), a3)

\* _parse_error_log
_parse_error_log(error_log) ==
    LET lines == _read_log_tail(error_log, 1000)
        acc   == ErrorLoop(lines, [levels |-> <<>>, recent_errors |-> <<>>,
                                   error_messages |-> <<>>])
    IN  [levels          |-> acc.levels,
         recent_critical |-> LastLines(acc.recent_errors, 5),
         common_errors   |-> most_common(acc.error_messages, 10)]

(***************************************************************************)
(* NginxLogParser.get_stats                                                *)
(***************************************************************************)

\* _empty_stats at wall-clock time t
_empty_stats(t) ==
    [total_requests    |-> 0,
     unique_ips        |-> 0,
     total_bandwidth   |-> 0,
     top_ips           |-> <<>>,
     top_pages         |-> <<>>,
     status_codes      |-> <<>>,
     status_summary    |-> [s2xx |-> 0, s3xx |-> 0, s4xx |-> 0, s5xx |-> 0],
     methods           |-> <<>>,
     top_referers      |-> <<>>,
     top_agents        |-> <<>>,
     hourly            |-> <<>>,
     bandwidth_by_page |-> <<>>,
     errors            |-> [levels |-> <<>>, recent_critical |-> <<>>,
                            common_errors |-> <<>>],
     parse_time        |-> t]

\* The counters of get_stats before its loop.
NoCounts ==
    [ips |-> <<>>, pages |-> <<>>, status_codes |-> <<>>, methods |-> <<>>,
     referers |-> <<>>, agents |-> <<>>, hourly |-> <<>>,
     bandwidth_by_page |-> <<>>, requests_by_page |-> <<>>,
     total_bandwidth |-> 0]

\* One turn of the loop of get_stats.
CountEntry(c, entry) ==
    LET parts == Split(entry.time, ":")
    IN  [ips               |-> Inc(c.ips, entry.ip, 1),
         pages             |-> Inc(c.pages, entry.path, 1),
         status_codes      |-> Inc(c.status_codes, entry.status, 1),
         methods           |-> Inc(c.methods, entry.method, 1),
         referers          |-> IF entry.referer # <<>> /\ entry.referer # <<"-">>
                               THEN Inc(c.referers, entry.referer, 1)
                               ELSE c.referers,
         agents            |-> Inc(c.agents, _simplify_agent(entry.agent), 1),
         hourly            |-> IF Len(parts) >= 2 THEN Inc(c.hourly, parts[2], 1)
                               ELSE c.hourly,
         total_bandwidth   |-> c.total_bandwidth + entry.size,
         bandwidth_by_page |-> Inc(c.bandwidth_by_page, entry.path, entry.size),
         requests_by_page  |-> Inc(c.requests_by_page, entry.path, 1)]

RECURSIVE CountEntries(_, _)
CountEntries(entries, c) ==
    IF entries = <<>> THEN c
    ELSE CountEntries(Tail(entries), CountEntry(c, Head(entries)))

\* The second half of get_stats: the statistics of a non-empty list of
\* entries, the error log read after the loop over them.
Aggregate(entries, error_log, t) ==
    LET c == CountEntries(entries, NoCounts)
    IN  [total_requests    |-> Len(entries),
         unique_ips        |-> Len(c.ips),
         total_bandwidth   |-> c.total_bandwidth,
         top_ips           |-> most_common(c.ips, 15),
         top_pages         |-> most_common(c.pages, 15),
         status_codes      |-> most_common(c.status_codes, 10),
         status_summary    |-> [s2xx |-> SumRange(c.status_codes, 200, 300),
                                s3xx |-> SumRange(c.status_codes, 300, 400),
                                s4xx |-> SumRange(c.status_codes, 400, 500),
                                s5xx |-> SumRange(c.status_codes, 500, 600)],
         methods           |-> most_common(c.methods, 10),
         top_referers      |-> most_common(c.referers, 10),
         top_agents        |-> most_common(c.agents, 10),
         hourly            |-> SortItems(c.hourly),
         bandwidth_by_page |->
             Prefix(SortDesc([i \in 1..Len(c.bandwidth_by_page) |->
                                 <<c.bandwidth_by_page[i][1],
                                   c.bandwidth_by_page[i][2],
                                   Get(c.requests_by_page, c.bandwidth_by_page[i][1])>>],
                             2), 15),
         errors            |-> _parse_error_log(error_log),
         parse_time        |-> t]

\* get_stats at wall-clock time t, for a parser with tail_lines lines.
\* What a call gives when an exception leaves it.
Raised == [raised |-> TRUE]

\* Whether an exception leaves _read_log_tail(file): a file that is missing
\* returns [] before tail is run, and every exception of running tail, the
\* timeout included, is caught and returns [].
TailRaisesUncaught(file) == file.kind = "error"

TailRaises(file) == FALSE

get_stats(access_log, error_log, tail_lines, t) ==
    IF TailRaises(access_log) THEN Raised
    ELSE LET entries == parse_access_log(access_log, tail_lines)
         IN  IF entries = <<>> THEN _empty_stats(t)
             ELSE IF TailRaises(error_log) THEN Raised
             ELSE Aggregate(entries, error_log, t)

(***************************************************************************)
(* Log files                                                               *)
(***************************************************************************)

File(lines) == [kind |-> "ok", lines |-> lines]

MissingFile == [kind |-> "missing", lines |-> <<>>]

\* A file on which running tail raises or exceeds its timeout.
FailingFile == [kind |-> "error", lines |-> <<>>]

\* One access-log line in the combined format, from its fields.
AccessLine(ip, time, method, path, status, size, referer, agent) ==
    ip \o <<" ", "-", " ", "-", " ", "[">> \o time \o <<"]", " ", "\"">>
       \o method \o <<" ">> \o path \o <<" ", "H", "\"", " ">>
       \o status \o <<" ">> \o size
       \o <<" ", "\"">> \o referer \o <<"\"", " ", "\"">> \o agent \o <<"\"">>

\* One error-log line: a bracketed severity and a message.
ErrorLine(level, msg) == <<"t", " ", "[">> \o level \o <<"]", " ">> \o msg

\* The access log and the error log the dashboard runs on.
AppAccessLine ==
    AccessLine(<<"1">>, <<"d", ":", "1", "0">>, <<"G">>, <<"/">>,
               <<"2", "0", "0">>, <<"5">>, <<"-">>, <<"c">>)

AppErrorLine == ErrorLine(Crit, <<"x">>)

(***************************************************************************)
(* State                                                                   *)
(***************************************************************************)

VARIABLES
    now,               \* the wall clock, in seconds
    access_log,        \* the file NginxLogParser.access_log names
    error_log,         \* the file NginxLogParser.error_log names
    last_parse_time,   \* NginxLogParser.last_parse_time
    stats,             \* the last Snapshot: NginxMonitorApp.stats and the panels'
    paused,            \* NginxMonitorApp.paused
    refresh_interval,  \* NginxMonitorApp.refresh_interval
    timer,             \* the timer on_mount starts: its interval, start, ticks
    cycles,            \* refresh_data in progress, by the handler that called it
    pending,           \* keys pressed and not yet handled
    stopped,           \* the application has quit
    lastSet,           \* history: the last action_set_refresh call, until a tick
                       \* or until its interval has passed
    event,             \* history: what the last step of the application did
    read,              \* history: the files the last get_stats call read
    memo               \* history: the files and the Snapshot of some earlier call

vars == <<now, access_log, error_log, last_parse_time, stats, paused,
          refresh_interval, timer, cycles, pending, stopped, lastSet, event, read, memo>>

parserVars == <<access_log, error_log, last_parse_time>>

appVars == <<paused, refresh_interval, timer, cycles, pending, stopped,
             lastSet>>

\* The latest time of the clock and the longest queue of unhandled keys.
MaxTime == 2

MaxPending == 1

\* The handlers that call refresh_data: on_mount, auto_refresh (the timer's
\* callback) and action_refresh (the "r" key).
Origins == {"mount", "timer", "key"}

Idle == [pc |-> "idle", entries |-> <<>>, result |-> None]

Ev(name, by) == [name |-> name, by |-> by]

\* BINDINGS: the keys and what each is bound to.
Keys == {"q", "r", "p", "1", "2", "5"}

\* tail_lines, the default of NginxLogParser.__init__, which the
\* application does not override.
DefaultTailLines == 10000

\* The default of the reactive refresh_interval.
DefaultInterval == 2

\* refresh_data and get_stats are synchronous calls made on the event loop
\* of the application: while one runs, the loop runs no other handler.
HandlersRunConcurrently == TRUE

LoopIdle == \A o \in Origins : cycles[o].pc = "idle"

\* The time the timer next fires: start + (count + 1) * interval.
Due(t) == t.start + (t.count + 1) * t.interval

\* The timer after a callback returns at time n: the firing times that have
\* passed while the callback ran are skipped.
RECURSIVE SkipMissed(_, _)
SkipMissed(t, n) ==
    IF Due(t) < n THEN SkipMissed([t EXCEPT !.count = @ + 1], n) ELSE t

AppInit ==
    /\ now = 0
    /\ access_log = File(<<AppAccessLine>>)
    /\ error_log = File(<<AppErrorLine>>)
    /\ last_parse_time = None
    /\ stats = None
    /\ paused = FALSE
    /\ refresh_interval = DefaultInterval
    /\ timer = None
    /\ cycles = [o \in Origins |-> Idle]
    /\ pending = <<>>
    /\ stopped = FALSE
    /\ lastSet = None
    /\ event = Ev("init", "none")
    /\ read = None
    /\ memo = None

Init == AppInit

(***************************************************************************)
(* refresh_data: one collection cycle, in the steps of get_stats           *)
(***************************************************************************)

\* A handler calls refresh_data.
BeginCycle(o) == cycles' = [cycles EXCEPT ![o] = [Idle EXCEPT !.pc = "read_access"]]

\* get_stats, first half: parse_access_log reads and parses the access log
\* and last_parse_time is set; with no entry the result is _empty_stats().
CycleReadAccess(o) ==
    /\ cycles[o].pc = "read_access"
    /\ LET entries == parse_access_log(access_log, DefaultTailLines)
       IN  cycles' = [cycles EXCEPT ![o] =
                        IF entries = <<>>
                        THEN [pc |-> "publish", entries |-> <<>>,
                              result |-> _empty_stats(now)]
                        ELSE [pc |-> "read_error", entries |-> entries,
                              result |-> None]]
    /\ last_parse_time' = now
    /\ UNCHANGED <<now, access_log, error_log, stats, paused, refresh_interval,
                   timer, pending, stopped, lastSet, event, read,
                   memo>>

\* get_stats, second half: the counters, the error log and the result.
CycleReadError(o) ==
    /\ cycles[o].pc = "read_error"
    /\ cycles' = [cycles EXCEPT ![o] =
                    [pc |-> "publish", entries |-> <<>>,
                     result |-> Aggregate(cycles[o].entries, error_log,
                                          last_parse_time)]]
    /\ UNCHANGED <<now, access_log, error_log, last_parse_time, stats, paused,
                   refresh_interval, timer, pending, stopped, lastSet, event, read, memo>>

\* refresh_data stores the result and hands it to every panel; the handler
\* then returns: on_mount starts the timer with the refresh_interval of
\* that moment, and the timer, its callback done, skips the firing times
\* that have passed.
CyclePublish(o) ==
    /\ cycles[o].pc = "publish"
    /\ stats' = cycles[o].result
    /\ cycles' = [cycles EXCEPT ![o] = Idle]
    /\ timer' = CASE o = "mount" -> [interval |-> refresh_interval,
                                     start |-> now, count |-> 0]
                  [] o = "timer" -> SkipMissed(timer, now)
                  [] OTHER       -> timer
    /\ event' = Ev("publish", o)
    /\ UNCHANGED <<now, access_log, error_log, last_parse_time, paused,
                   refresh_interval, pending, stopped, lastSet,
                   read, memo>>

(***************************************************************************)
(* NginxMonitorApp: the handlers                                           *)
(***************************************************************************)

\* on_mount: refresh_data(), then set_interval(refresh_interval, auto_refresh).
on_mount ==
    /\ timer = None
    /\ LoopIdle
    /\ ~stopped
    /\ BeginCycle("mount")
    /\ event' = Ev("begin", "mount")
    /\ UNCHANGED <<now, access_log, error_log, last_parse_time, stats, paused,
                   refresh_interval, timer, pending, stopped, lastSet, read, memo>>

\* The condition under which auto_refresh calls refresh_data.
AutoRefreshAlways == TRUE

AutoRefreshRuns == ~paused

\* auto_refresh, the timer's callback: the timer fires no sooner than its
\* next firing time, when the event loop is free to run the callback.
auto_refresh ==
    /\ timer # None
    /\ LoopIdle
    /\ ~stopped
    /\ now >= Due(timer)
    /\ IF AutoRefreshRuns
       THEN /\ BeginCycle("timer")
            /\ timer' = [timer EXCEPT !.count = @ + 1]
       ELSE /\ timer' = SkipMissed([timer EXCEPT !.count = @ + 1], now)
            /\ UNCHANGED cycles
    /\ event' = Ev("tick", "timer")
    /\ lastSet' = None
    /\ UNCHANGED <<now, access_log, error_log, last_parse_time, stats, paused,
                   refresh_interval, pending, stopped, read, memo>>

\* A key of BINDINGS is at the head of the queue and the event loop is free
\* to run its action.
Handles(k) ==
    /\ timer # None
    /\ LoopIdle
    /\ ~stopped
    /\ pending # <<>>
    /\ Head(pending) = k
    /\ pending' = Tail(pending)

\* action_refresh ("r"): refresh_data(), whatever the state.
action_refresh_running_only ==
    /\ Handles("r")
    /\ IF paused THEN UNCHANGED cycles ELSE BeginCycle("key")
    /\ event' = Ev("begin", "key")
    /\ UNCHANGED <<now, access_log, error_log, last_parse_time, stats, paused,
                   refresh_interval, timer, stopped, lastSet,
                   read, memo>>

action_refresh ==
    /\ Handles("r")
    /\ BeginCycle("key")
    /\ event' = Ev("begin", "key")
    /\ UNCHANGED <<now, access_log, error_log, last_parse_time, stats, paused,
                   refresh_interval, timer, stopped, lastSet,
                   read, memo>>

\* action_pause ("p"): toggles paused.
action_pause ==
    /\ Handles("p")
    /\ paused' = ~paused
    /\ event' = Ev("pause", "key")
    /\ UNCHANGED <<now, access_log, error_log, last_parse_time, stats,
                   refresh_interval, timer, cycles, stopped, lastSet, read, memo>>

\* The seconds a key of BINDINGS passes to set_refresh.
IntervalOf(k) == CASE k = "1" -> 1 [] k = "2" -> 2 [] k = "5" -> 5

\* action_set_refresh(interval) ("1", "2", "5"): sets refresh_interval; the
\* timer that on_mount started is left as it is.
action_set_refresh_resuming(k) ==
    /\ Handles(k)
    /\ refresh_interval' = IntervalOf(k)
    /\ paused' = FALSE
    /\ lastSet' = [at |-> now, k |-> IntervalOf(k)]
    /\ event' = Ev("set_refresh", "key")
    /\ UNCHANGED <<now, access_log, error_log, last_parse_time, stats,
                   timer, cycles, stopped, read, memo>>

action_set_refresh(k) ==
    /\ Handles(k)
    /\ refresh_interval' = IntervalOf(k)
    /\ lastSet' = [at |-> now, k |-> IntervalOf(k)]
    /\ event' = Ev("set_refresh", "key")
    /\ UNCHANGED <<now, access_log, error_log, last_parse_time, stats, paused,
                   timer, cycles, stopped, read, memo>>

\* action_quit ("q"), the action of App: the application exits.
action_quit ==
    /\ Handles("q")
    /\ stopped' = TRUE
    /\ event' = Ev("quit", "key")
    /\ UNCHANGED <<now, access_log, error_log, last_parse_time, stats, paused,
                   refresh_interval, timer, cycles, lastSet,
                   read, memo>>

(***************************************************************************)
(* The environment: the user, the clock, nginx writing its logs            *)
(***************************************************************************)

\* The user presses a key of the running application; it waits until the
\* event loop handles it.
KeyPress(k) ==
    /\ ~stopped
    /\ (timer # None \/ cycles["mount"].pc # "idle")
    /\ Len(pending) < MaxPending
    /\ pending' = Append(pending, k)
    /\ UNCHANGED <<now, access_log, error_log, last_parse_time, stats, paused,
                   refresh_interval, timer, cycles, stopped, lastSet, event, read,
                   memo>>

\* A second of the running application passes.
Advance ==
    /\ ~stopped
    /\ (timer # None \/ cycles["mount"].pc # "idle")
    /\ now < MaxTime
    /\ now' = now + 1
    /\ lastSet' = IF lastSet # None /\ lastSet.at + lastSet.k <= now + 1
                  THEN None ELSE lastSet
    /\ UNCHANGED <<access_log, error_log, last_parse_time, stats, paused,
                   refresh_interval, timer, cycles, pending, stopped,
                   event, read, memo>>

Next ==
    \/ on_mount
    \/ auto_refresh
    \/ \E o \in Origins : CycleReadAccess(o)
    \/ \E o \in Origins : CycleReadError(o)
    \/ \E o \in Origins : CyclePublish(o)
    \/ action_refresh
    \/ action_pause
    \/ \E k \in {"1", "2", "5"} : action_set_refresh(k)
    \/ action_quit
    \/ \E k \in Keys : KeyPress(k)
    \/ Advance

Spec == Init /\ [][Next]_vars

(***************************************************************************)
(* The parser alone: one call of get_stats on each of a set of log files   *)
(***************************************************************************)

\* The most lines of a log file built from a pool of lines, the most
\* distinct keys of a log file built for the ranked lists, and how many
\* numbers of distinct keys below that are tried.
MaxLines == 2

MaxKeys == 16

KeySpan == 7

Digit(d) == AsciiTable[d + 17]

\* str(n) for a natural number n.
RECURSIVE Digits(_)
Digits(n) == IF n < 10 THEN <<Digit(n)>> ELSE Digits(n \div 10) \o <<Digit(n % 10)>>

\* The sequences over the set pool of at most n elements.
RECURSIVE SeqsUpTo(_, _)
SeqsUpTo(pool, n) ==
    IF n = 0 THEN {<<>>}
    ELSE LET shorter == SeqsUpTo(pool, n - 1)
         IN  shorter \cup {Append(q, e) : q \in shorter, e \in pool}

\* Access-log lines that differ in status and size: statuses at the edges
\* of the four categories and outside them, sizes that are decimal, "-",
\* signed, underscored and not numeric; two lines that do not match, and
\* one that matches only where strip() of the output of tail takes its
\* leading space away; and a line whose timestamp has no hour.
PoolLine(ip, path, status, size) ==
    AccessLine(ip, <<"d", ":", "0", "7", ":", "0", "1">>, <<"G", "E", "T">>,
               path, status, size, <<"-">>, <<"c", "u", "r", "l">>)

GarbageLine == <<"g", "a", "r", "b", "a", "g", "e">>

AccessPool ==
    { PoolLine(<<"1">>, <<"/">>,      <<"2", "0", "0">>, <<"5">>),
      PoolLine(<<"2">>, <<"/", "a">>, <<"3", "0", "0">>, <<"-">>),
      PoolLine(<<"1">>, <<"/", "a">>, <<"4", "0", "4">>, <<"-", "5">>),
      PoolLine(<<"2">>, <<"/">>,      <<"5", "9", "9">>, <<"+", "7">>),
      PoolLine(<<"1">>, <<"/">>,      <<"6", "0", "0">>, <<"1", "_", "0">>),
      PoolLine(<<"3">>, <<"/", "b">>, <<"1", "9", "9">>, <<"x">>),
      PoolLine(<<"3">>, <<"/">>,      <<"2", "0", "x">>, <<"5">>),
      <<" ">> \o PoolLine(<<"4">>, <<"/">>, <<"2", "0", "0">>, <<"5">>),
      AccessLine(<<"2">>, <<"d">>, <<"G", "E", "T">>, <<"/">>, <<"2", "0", "0">>,
                 <<"3">>, <<"-">>, <<"c", "u", "r", "l">>),
      GarbageLine }

\* Error-log lines: the severities, a line with no severity, a line whose
\* first bracketed token is no severity, a line with two severities, and
\* a line of more than 120 characters.
LongMessage == [i \in 1..115 |-> IF i % 2 = 0 THEN "a" ELSE "b"]

ErrorPool ==
    { ErrorLine(Crit, <<"x">>),
      ErrorLine(Emerg, <<"y">>),
      ErrorLine(Error, <<"x">>),
      ErrorLine(Levels[5], <<"z">>),
      <<"n", "o", " ", "l", "e", "v", "e", "l">>,
      <<"[", "x", "]", " ">> \o ErrorLine(Alert, <<"y">>),
      ErrorLine(Levels[5], <<"[", "c", "r", "i", "t", "]">>),
      ErrorLine(Crit, LongMessage) }

\* The i-th request of a log built for the ranked lists: every field that
\* is counted differs from request to request, the sizes and hours repeat.
RankLine(i) ==
    AccessLine(Digits(i), <<"d", ":">> \o Digits(i % 4), <<"M">> \o Digits(i),
               <<"/">> \o Digits(i), Digits(200 + i), Digits(i % 3),
               <<"r">> \o Digits(i), <<"a">> \o Digits(i))

\* The i-th entry of an error log built for the ranked lists.
RankErrorLine(i) == ErrorLine(Levels[(i % 5) + 1], <<"m">> \o Digits(i))

\* The requests of such a log: n distinct ones, then two more of request d1
\* and one more of d2 (none for 0).
RankOrder(n, d1, d2) ==
    [i \in 1..n |-> i]
        \o (IF d1 = 0 THEN <<>> ELSE <<d1, d1>>)
        \o (IF d2 = 0 THEN <<>> ELSE <<d2>>)

\* User agents: the tokens of _simplify_agent in mixed case, alone and two
\* together in either order, and agents with no token: empty, "-", and
\* literal ones of up to 31 characters.
AgentTokens ==
    { <<"G", "o", "o", "g", "l", "e", "B", "o", "t">>,
      <<"B", "I", "N", "G", "B", "O", "T">>,
      <<"b", "o", "t">>,
      <<"C", "r", "a", "w", "l", "e", "r">>,
      <<"s", "p", "i", "d", "e", "r">>,
      <<"c", "u", "r", "l">>,
      <<"W", "g", "e", "t">>,
      <<"p", "y", "t", "h", "o", "n">>,
      <<"E", "d", "g", "e">>,
      <<"E", "d", "g", "/">>,
      <<"F", "i", "r", "e", "f", "o", "x">>,
      <<"C", "h", "r", "o", "m", "e">>,
      <<"S", "a", "f", "a", "r", "i">>,
      <<"O", "p", "e", "r", "a">> }

AgentInputs ==
    AgentTokens
    \cup {a \o <<" ">> \o b : a \in AgentTokens, b \in AgentTokens}
    \cup { <<>>,
           <<"-">>,
           <<"-", "x">>,
           <<"M", "o", "z", "i", "l", "l", "a", "/", "5", ".", "0", " ", "(", "c", "o", "m", "p", "a", "t", "i", "b", "l", "e", ")">>,
           <<"M", "o", "z", "i", "l", "l", "a", "/", "5", ".", "0", " ", "(", "c", "o", "m", "p", "a", "t", "i", "b", "l", "e", ")", " ", "x", "x", "x", "x", "x">>,
           <<"M", "o", "z", "i", "l", "l", "a", "/", "5", ".", "0", " ", "(", "c", "o", "m", "p", "a", "t", "i", "b", "l", "e", ")", " ", "x", "x", "x", "x", "x", "x">> }

AgentLine(agent) ==
    AccessLine(<<"1">>, <<"d", ":", "0", "7">>, <<"G", "E", "T">>, <<"/">>,
               <<"2", "0", "0">>, <<"5">>, <<"-">>, agent)

\* The pairs of an access log and an error log that get_stats is called on.
ParseInputs ==
    {<<File(ls), File(<<ErrorLine(Crit, <<"x">>)>>)>> :
        ls \in SeqsUpTo(AccessPool, MaxLines)}
    \cup
    {<<a, File(ls)>> :
        a \in {MissingFile, FailingFile, File(<<>>), File(<<GarbageLine>>),
               File(<<PoolLine(<<"1">>, <<"/">>, <<"2", "0", "0">>, <<"5">>)>>)},
        ls \in SeqsUpTo(ErrorPool, MaxLines)}
    \cup
    {<<a, e>> :
        a \in {MissingFile, FailingFile, File(<<>>), File(<<GarbageLine>>),
               File(<<PoolLine(<<"1">>, <<"/">>, <<"2", "0", "0">>, <<"5">>)>>)},
        e \in {MissingFile, FailingFile}}
    \cup
    {<<File(<<AgentLine(a)>>), File(<<>>)>> : a \in AgentInputs}
    \cup
    UNION {{<<File([j \in 1..Len(RankOrder(n, d1, d2)) |->
                        RankLine(RankOrder(n, d1, d2)[j])]),
              File([j \in 1..Len(RankOrder(n, d1, d2)) |->
                        RankErrorLine(RankOrder(n, d1, d2)[j])])>> :
               d1 \in 0..n, d2 \in {0, n}} :
           n \in (MaxKeys - KeySpan)..MaxKeys}

AppUnused ==
    /\ paused = FALSE
    /\ refresh_interval = DefaultInterval
    /\ timer = None
    /\ cycles = [o \in Origins |-> Idle]
    /\ pending = <<>>
    /\ stopped = FALSE
    /\ lastSet = None
    /\ event = Ev("init", "none")

ParseInit ==
    /\ now = 0
    /\ \E files \in ParseInputs :
          /\ access_log = files[1]
          /\ error_log = files[2]
    /\ last_parse_time = None
    /\ stats = None
    /\ read = None
    /\ memo = None
    /\ AppUnused

\* A call of get_stats on the parser: the Snapshot it returns, and
\* last_parse_time set. The history keeps the files the call read and,
\* for some calls, the files and the Snapshot of the call.
GetStatsAccumulating ==
    LET s == get_stats(access_log, error_log, DefaultTailLines, now)
    IN  /\ stats' = IF stats = None THEN s
                    ELSE [s EXCEPT !.total_requests = @ + stats.total_requests]
        /\ last_parse_time' = now
        /\ read' = <<access_log, error_log>>
        /\ memo' \in {memo, [read |-> read', stats |-> stats']}
        /\ UNCHANGED <<now, access_log, error_log, appVars, event>>

GetStatsCall ==
    /\ stats' = get_stats(access_log, error_log, DefaultTailLines, now)
    /\ last_parse_time' = now
    /\ read' = <<access_log, error_log>>
    /\ memo' \in {memo, [read |-> read', stats |-> stats']}
    /\ UNCHANGED <<now, access_log, error_log, appVars, event>>

ParseOnce ==
    /\ read = None
    /\ stats' = get_stats(access_log, error_log, DefaultTailLines, now)
    /\ last_parse_time' = now
    /\ read' = <<access_log, error_log>>
    /\ UNCHANGED <<now, access_log, error_log, appVars, event, memo>>

SpecParse == ParseInit /\ [][ParseOnce]_vars

(***************************************************************************)
(* The parser over several cycles, the log files changing between them     *)
(***************************************************************************)

CycleAccessFiles ==
    { MissingFile, File(<<>>),
      File(<<PoolLine(<<"1">>, <<"/">>, <<"2", "0", "0">>, <<"5">>)>>),
      File(<<PoolLine(<<"1">>, <<"/">>, <<"2", "0", "0">>, <<"5">>),
             PoolLine(<<"2">>, <<"/", "a">>, <<"4", "0", "4">>, <<"-">>)>>) }

CycleErrorFiles == { File(<<>>), File(<<ErrorLine(Crit, <<"x">>)>>) }

CyclesInit ==
    /\ now = 0
    /\ access_log \in CycleAccessFiles
    /\ error_log \in CycleErrorFiles
    /\ last_parse_time = None
    /\ stats = None
    /\ read = None
    /\ memo = None
    /\ AppUnused

\* nginx writes, rotates or removes a log file.
LogsChange ==
    /\ access_log' \in CycleAccessFiles
    /\ error_log' \in CycleErrorFiles
    /\ <<access_log', error_log'>> # <<access_log, error_log>>
    /\ UNCHANGED <<now, last_parse_time, stats, appVars, event, read, memo>>

\* A second passes.
ClockTick ==
    /\ now < MaxTime
    /\ now' = now + 1
    /\ UNCHANGED <<access_log, error_log, last_parse_time, stats, appVars,
                   event, read, memo>>

CyclesNext == GetStatsCall \/ LogsChange \/ ClockTick

SpecCycles == CyclesInit /\ [][CyclesNext]_vars

(***************************************************************************)
(* Properties of the scheduler (Spec)                                      *)
(***************************************************************************)

\* C1: every Snapshot published while the scheduler is paused is the one of
\* a cycle that refreshNow (action_refresh) started, never of a cycle that
\* a timer tick started; a tick that fires while paused starts no cycle.
PausedPublishOnlyByRefresh ==
    /\ (paused /\ event.name = "publish") => event.by = "key"
    /\ (paused /\ event.name = "tick") => LoopIdle

\* A tick has fired while paused, after the first Snapshot, and published
\* nothing.
PausedTickSeen ==
    /\ paused
    /\ event = Ev("tick", "timer")
    /\ stats # None
    /\ LoopIdle

\* The timer fires: its count of firings grows when no callback of it is
\* returning.
TickStep ==
    /\ timer # None
    /\ timer' # None
    /\ cycles["timer"].pc = "idle"
    /\ timer'.count > timer.count

\* C2: after setInterval(k) the next tick comes no sooner than k seconds
\* after the call (lastSet holds the call for k seconds, or until the next
\* tick), and every tick is spaced by the interval that was last set.
SetIntervalTakesEffect ==
    [][TickStep => (lastSet = None /\ timer.interval = refresh_interval)]_vars

\* C3: refreshNow starts a collection cycle whatever the scheduler state and
\* the timer phase, the cycle publishes the statistics of the log files,
\* and from its start to its publish the pause flag, the interval and the
\* timer (so its next tick) stay as they were.
RefreshNowAlwaysRuns ==
    [][ /\ Handles("r") => cycles'["key"].pc = "read_access"
        /\ (cycles["key"].pc # "idle" \/ cycles'["key"].pc # "idle")
              => UNCHANGED <<paused, refresh_interval, timer>>
        /\ (cycles["key"].pc = "publish" /\ cycles'["key"].pc = "idle")
              => /\ stats' = cycles["key"].result
                 /\ stats' = get_stats(access_log, error_log, DefaultTailLines,
                                       last_parse_time) ]_vars

\* A refreshNow has published while the scheduler is paused and a tick of
\* the timer is due.
RefreshPublishedWhilePaused ==
    /\ paused
    /\ event = Ev("publish", "key")
    /\ stats # None
    /\ now >= Due(timer)

StopRequested == stopped \/ \E i \in 1..Len(pending) : pending[i] = "q"

\* C5: once a stop has been requested no collection cycle starts and no
\* Snapshot is published, the one of a cycle in flight at the request
\* included.
NothingAfterStopRequest ==
    [][StopRequested =>
          /\ stats' = stats
          /\ \A o \in Origins :
                (cycles[o].pc = "idle" => cycles'[o].pc = "idle")]_vars

(***************************************************************************)
(* Properties of the parser (SpecParse, SpecCycles)                        *)
(***************************************************************************)

\* The records and the error-log tail of the call that returned stats.
Records == parse_access_log(read[1], DefaultTailLines)

ErrorTail == _read_log_tail(read[2], 1000)

HasLevel(line, lv) ==
    /\ line # <<>>
    /\ LevelSearch(line) # None
    /\ LevelSearch(line).level = lv

CountOf(d, k) == IF \E i \in 1..Len(d) : d[i][1] = k THEN Get(d, k) ELSE 0

\* C6: every line of the error-log tail with a recognized severity token is
\* counted in errors.levels under its severity, and a [crit] line is in
\* recent_critical (when fewer than five critical lines follow it), whatever
\* the access log holds.
ErrorLinesCounted ==
    read # None =>
        LET tail == ErrorTail
            critical(i) == \E lv \in {Emerg, Alert, Crit} : HasLevel(tail[i], lv)
        IN  /\ \A k \in 1..Len(Levels) :
                  CountOf(stats.errors.levels, Levels[k]) =
                      Cardinality({i \in 1..Len(tail) : HasLevel(tail[i], Levels[k])})
            /\ \A i \in 1..Len(tail) :
                  (/\ HasLevel(tail[i], Crit)
                   /\ Cardinality({j \in (i + 1)..Len(tail) : critical(j)}) < 5)
                  => \E j \in 1..Len(stats.errors.recent_critical) :
                        stats.errors.recent_critical[j] = <<Crit, Prefix(tail[i], 120)>>

InRange(s) == 200 <= s /\ s < 600

Between(rs, lo, hi) == Cardinality({i \in 1..Len(rs) : lo <= rs[i].status /\ rs[i].status < hi})

\* C7: the four category sums add up to at most total_requests, to exactly
\* total_requests if and only if every record's status is in [200,600);
\* each sum counts the records of its range, and a record with a status
\* outside [200,600) is counted in total_requests and in the table of
\* status counts (of which status_codes shows the ten most frequent).
CategorySumsBounded ==
    read # None =>
        LET rs  == Records
            sum == stats.status_summary.s2xx + stats.status_summary.s3xx
                   + stats.status_summary.s4xx + stats.status_summary.s5xx
            raw == CountEntries(rs, NoCounts).status_codes
        IN  /\ stats.total_requests = Len(rs)
            /\ sum <= stats.total_requests
            /\ (sum = stats.total_requests) <=> (\A i \in 1..Len(rs) : InRange(rs[i].status))
            /\ stats.status_summary.s2xx = Between(rs, 200, 300)
            /\ stats.status_summary.s3xx = Between(rs, 300, 400)
            /\ stats.status_summary.s4xx = Between(rs, 400, 500)
            /\ stats.status_summary.s5xx = Between(rs, 500, 600)
            /\ \A i \in 1..Len(rs) :
                  CountOf(raw, rs[i].status) =
                      Cardinality({j \in 1..Len(rs) : rs[j].status = rs[i].status})
            /\ stats.status_codes = most_common(raw, 10)

\* A Snapshot of records some of which are in a category and some outside
\* [200,600).
SomeStatusOutOfRange ==
    /\ read # None
    /\ stats.status_summary.s2xx + stats.status_summary.s3xx
       + stats.status_summary.s4xx + stats.status_summary.s5xx > 0
    /\ stats.status_summary.s2xx + stats.status_summary.s3xx
       + stats.status_summary.s4xx + stats.status_summary.s5xx < stats.total_requests
    /\ \E i \in 1..Len(Records) : Records[i].status >= 600

AllDigits(s) == s # <<>> /\ \A i \in 1..Len(s) : IsDigit(s[i])

\* C8: every line that matches the pattern gives a record, with status and
\* size non-negative, equal to the decimal number of the field when the
\* field is one, the size 0 for every other size field; so total_bandwidth
\* and the bandwidth of every path are non-negative.
FieldsNonNegative ==
    read # None =>
        LET lines == _read_log_tail(read[1], DefaultTailLines)
            matching == {i \in 1..Len(lines) :
                            lines[i] # <<>> /\ ReMatch(LOG_PATTERN, lines[i]).ok}
        IN  /\ Len(Records) = Cardinality(matching)
            /\ \A i \in matching :
                  LET m == ReMatch(LOG_PATTERN, lines[i])
                      r == _parse_access_line(lines[i])
                      statusTok == Group(lines[i], m, 19)
                      sizeTok == Group(lines[i], m, 21)
                  IN  /\ r # None
                      /\ r.status >= 0
                      /\ r.size >= 0
                      /\ AllDigits(statusTok) => r.status = DigitsValue(statusTok, 0)
                      /\ r.size = IF AllDigits(sizeTok) THEN DigitsValue(sizeTok, 0)
                                  ELSE 0
            /\ stats.total_bandwidth >= 0
            /\ \A i \in 1..Len(stats.bandwidth_by_page) :
                  stats.bandwidth_by_page[i][2] >= 0

RECURSIVE WeightOf(_, _, _)
WeightOf(ks, ws, k) ==
    IF ks = <<>> THEN 0
    ELSE (IF Head(ks) = k THEN Head(ws) ELSE 0) + WeightOf(Tail(ks), Tail(ws), k)

\* list ranks the keys of ks, the key of each occurrence in arrival order
\* with its weight in ws: it holds pairs of a key and the total weight of
\* the key, a higher total first and of equal totals the key seen first
\* first, and it holds the Min(K, number of keys) first of that order.
Ranked(list, ks, ws, K) ==
    LET first == {i \in 1..Len(ks) : \A j \in 1..(i - 1) : ks[j] # ks[i]}
        keys  == {ks[i] : i \in first}
        pos   == [k \in keys |-> CHOOSE i \in first : ks[i] = k]
        total == [k \in keys |-> WeightOf(ks, ws, k)]
        Before(a, b) == \/ total[a] > total[b]
                        \/ (total[a] = total[b] /\ pos[a] < pos[b])
        listed == {list[i][1] : i \in 1..Len(list)}
    IN  /\ Len(list) = IF Cardinality(keys) < K THEN Cardinality(keys) ELSE K
        /\ \A i \in 1..Len(list) : list[i][1] \in keys /\ list[i][2] = total[list[i][1]]
        /\ \A i \in 1..Len(list) : \A j \in (i + 1)..Len(list) :
              Before(list[i][1], list[j][1])
        /\ \A k \in keys \ listed : \A i \in 1..Len(list) : Before(list[i][1], k)

Ones(ks) == [i \in 1..Len(ks) |-> 1]

RankedByCount(list, ks, K) == Ranked(list, ks, Ones(ks), K)

\* The messages that _parse_error_log counts, in arrival order.
CountedMessages ==
    LET lines == SelectSeq(ErrorTail,
                           LAMBDA l : \E lv \in {Emerg, Alert, Crit, Error} : HasLevel(l, lv))
    IN  [i \in 1..Len(lines) |->
            Prefix(Strip(From(lines[i], LevelSearch(lines[i]).end)), 80)]

\* The ranked lists of stats that are made of the records rs.
RequestListsRanked(rs) ==
    LET referers == SelectSeq([i \in 1..Len(rs) |-> rs[i].referer],
                              LAMBDA r : r # <<>> /\ r # <<"-">>)
        paths == [i \in 1..Len(rs) |-> rs[i].path]
    IN  /\ RankedByCount(stats.top_ips, [i \in 1..Len(rs) |-> rs[i].ip], 15)
        /\ RankedByCount(stats.top_pages, paths, 15)
        /\ RankedByCount(stats.status_codes, [i \in 1..Len(rs) |-> rs[i].status], 10)
        /\ RankedByCount(stats.methods, [i \in 1..Len(rs) |-> rs[i].method], 10)
        /\ RankedByCount(stats.top_referers, referers, 10)
        /\ RankedByCount(stats.top_agents,
                         [i \in 1..Len(rs) |-> _simplify_agent(rs[i].agent)], 10)
        /\ Ranked(stats.bandwidth_by_page, paths, [i \in 1..Len(rs) |-> rs[i].size], 15)
        /\ \A i \in 1..Len(stats.bandwidth_by_page) :
              stats.bandwidth_by_page[i][3] =
                  WeightOf(paths, Ones(paths), stats.bandwidth_by_page[i][1])

\* C9: every ranked list of a Snapshot (IPs, paths, status codes, methods,
\* referers, agents, bandwidth by path, common errors) is in non-increasing
\* order of its ranking key, equal keys in first-seen order, and holds
\* exactly the Min(K, number of distinct keys) highest entries.
RankedListsExact ==
    read # None =>
        /\ RequestListsRanked(Records)
        /\ RankedByCount(stats.errors.common_errors, CountedMessages, 10)

\* The lists made of the access log are ranked as C9 says, lists longer
\* than their K included.
RequestListsExact == read # None => RequestListsRanked(Records)

\* A Snapshot without its wall-clock time.
SansTime(s) == [s EXCEPT !.parse_time = 0]

AsEmpty(file) == IF file.kind = "ok" THEN file ELSE File(<<>>)

NoErrors == [levels |-> <<>>, recent_critical |-> <<>>, common_errors |-> <<>>]

\* C11: a call of get_stats never fails: with a log file missing, or its
\* tail failing or timing out, the call returns the Snapshot of that file
\* empty; with no access source that is total_requests = 0, unique_ips = 0,
\* category sums 0 and every ranked list empty, and with no error source an
\* empty error summary.
CycleNeverFails ==
    read # None =>
        /\ stats # Raised
        /\ DOMAIN stats = DOMAIN _empty_stats(0)
        /\ (read[1].kind # "ok" \/ read[2].kind # "ok") =>
              stats = get_stats(AsEmpty(read[1]), AsEmpty(read[2]),
                                DefaultTailLines, last_parse_time)
        /\ (read[1].kind # "ok" \/ read[1].lines = <<>>) =>
              /\ stats.total_requests = 0
              /\ stats.unique_ips = 0
              /\ stats.status_summary = [s2xx |-> 0, s3xx |-> 0, s4xx |-> 0, s5xx |-> 0]
              /\ stats.top_ips = <<>> /\ stats.top_pages = <<>>
              /\ stats.status_codes = <<>> /\ stats.methods = <<>>
              /\ stats.top_referers = <<>> /\ stats.top_agents = <<>>
              /\ stats.bandwidth_by_page = <<>>
              /\ stats.errors.common_errors = <<>>
        /\ (read[2].kind # "ok" /\ Records # <<>>) =>
              /\ stats.errors = NoErrors
              /\ stats.total_requests = Len(Records)

\* get_stats has returned with tail failing on the access log and the error
\* log missing.
BothSourcesUnreadable ==
    /\ read # None
    /\ read[1].kind = "error"
    /\ read[2].kind = "missing"
    /\ stats.total_requests = 0

\* Whether a line of the tail gives a record.
Matches(l) == l # <<>> /\ ReMatch(LOG_PATTERN, l).ok

\* C12: a line of the tail that does not match the pattern is dropped and
\* the lines after it are still parsed: total_requests is the number of
\* lines that match, and the Snapshot is the one of the same lines without
\* those that do not match.
MismatchesDropped ==
    read # None =>
        LET kept == SelectSeq(_read_log_tail(read[1], DefaultTailLines), Matches)
        IN  /\ stats.total_requests = Len(kept)
            /\ stats = get_stats(File(kept), read[2], DefaultTailLines,
                                 last_parse_time)

\* A Snapshot of a tail in which a line that does not match comes before
\* one that does.
MismatchBeforeMatch ==
    /\ read # None
    /\ stats.total_requests > 0
    /\ LET lines == _read_log_tail(read[1], DefaultTailLines)
       IN  \E i \in 1..Len(lines) : \E j \in (i + 1)..Len(lines) :
              ~Matches(lines[i]) /\ Matches(lines[j])

\* The priority list of classify: the tokens of each entry and its category.
AgentPriority ==
    << [tokens |-> {<<"g", "o", "o", "g", "l", "e", "b", "o", "t">>},
        category |-> <<"G", "o", "o", "g", "l", "e", "b", "o", "t">>],
       [tokens |-> {<<"b", "i", "n", "g", "b", "o", "t">>},
        category |-> <<"B", "i", "n", "g", "b", "o", "t">>],
       [tokens |-> {<<"b", "o", "t">>, <<"c", "r", "a", "w", "l", "e", "r">>, <<"s", "p", "i", "d", "e", "r">>},
        category |-> <<"O", "t", "h", "e", "r", " ", "B", "o", "t">>],
       [tokens |-> {<<"c", "u", "r", "l">>},
        category |-> <<"c", "u", "r", "l">>],
       [tokens |-> {<<"w", "g", "e", "t">>},
        category |-> <<"w", "g", "e", "t">>],
       [tokens |-> {<<"p", "y", "t", "h", "o", "n">>},
        category |-> <<"P", "y", "t", "h", "o", "n">>],
       [tokens |-> {<<"e", "d", "g", "e">>, <<"e", "d", "g", "/">>},
        category |-> <<"E", "d", "g", "e">>],
       [tokens |-> {<<"f", "i", "r", "e", "f", "o", "x">>},
        category |-> <<"F", "i", "r", "e", "f", "o", "x">>],
       [tokens |-> {<<"c", "h", "r", "o", "m", "e">>},
        category |-> <<"C", "h", "r", "o", "m", "e">>],
       [tokens |-> {<<"s", "a", "f", "a", "r", "i">>},
        category |-> <<"S", "a", "f", "a", "r", "i">>],
       [tokens |-> {<<"o", "p", "e", "r", "a">>},
        category |-> <<"O", "p", "e", "r", "a">>] >>

\* The category of the earliest entry of the list one of whose tokens is in
\* the agent, letter case apart; with none, "Empty" for the empty agent and
\* "-", else the agent itself, its first 30 characters and "..." when it
\* is longer.
CategoryOf(agent) ==
    LET hits == {i \in 1..Len(AgentPriority) :
                    \E w \in AgentPriority[i].tokens : Contains(Lower(agent), w)}
    IN  IF hits # {}
        THEN AgentPriority[CHOOSE i \in hits : \A j \in hits : i <= j].category
        ELSE IF agent \in {<<>>, <<"-">>} THEN <<"E", "m", "p", "t", "y">>
        ELSE IF Len(agent) > 30 THEN SubSeq(agent, 1, 30) \o <<".", ".", ".">>
        ELSE agent

\* C13: the agent of every record is classified as the priority list says,
\* and the Snapshot of one record counts it under that category.
AgentsClassifiedByPriority ==
    read # None =>
        LET rs == Records
        IN  /\ \A i \in 1..Len(rs) :
                  _simplify_agent(rs[i].agent) = CategoryOf(rs[i].agent)
            /\ Len(rs) = 1 => stats.top_agents = <<<<CategoryOf(rs[1].agent), 1>>>>

\* A Snapshot of one request whose agent has a brand token before a bot
\* token and is counted as a bot.
BrandAndBotCountedAsBot ==
    /\ read # None
    /\ Len(Records) = 1
    /\ Records[1].agent = <<"C", "h", "r", "o", "m", "e", " ", "b", "o", "t">>
    /\ stats.top_agents = <<<<AgentPriority[3].category, 1>>>>

\* A Snapshot of one request whose agent has no token and more than 30
\* characters.
LongLiteralAgent ==
    /\ read # None
    /\ Len(Records) = 1
    /\ Len(Records[1].agent) > 30
    /\ Len(stats.top_agents[1][1]) = 33

(***************************************************************************)
(* Properties of the scheduler (Spec), continued                           *)
(***************************************************************************)

\* C14: setInterval changes the interval and nothing else, the pause toggle
\* the pause flag and nothing else: in either scheduler state neither
\* changes the other's variable, starts a collection cycle or changes the
\* Snapshot last published.
ControlsChangeOnlyTheirOwn ==
    [][ /\ (\E k \in {"1", "2", "5"} : Handles(k)) =>
              /\ refresh_interval' = IntervalOf(Head(pending))
              /\ UNCHANGED <<paused, cycles, stats, last_parse_time>>
        /\ Handles("p") =>
              /\ paused' = ~paused
              /\ UNCHANGED <<refresh_interval, cycles, stats, last_parse_time>> ]_vars

\* setInterval(5) has been handled in the paused state, after a Snapshot.
IntervalSetWhilePaused ==
    /\ paused
    /\ event = Ev("set_refresh", "key")
    /\ refresh_interval = 5
    /\ stats # None

(***************************************************************************)
(* Properties of the parser (SpecParse), continued                         *)
(***************************************************************************)

\* Whether the first severity of a line is emerg, alert or crit.
IsCritical(l) == \E lv \in {Emerg, Alert, Crit} : HasLevel(l, lv)

\* C15: recent_critical is the last five, or all when fewer, of the lines
\* of the error-log tail whose first severity is emerg, alert or crit, in
\* arrival order, each with its level and its first 120 characters; no
\* other line is in it.
RecentCriticalExact ==
    read # None =>
        LET critical == SelectSeq(ErrorTail, IsCritical)
            last     == IF Len(critical) <= 5 THEN critical
                        ELSE SubSeq(critical, Len(critical) - 4, Len(critical))
        IN  /\ Len(stats.errors.recent_critical) = Len(last)
            /\ \A i \in 1..Len(last) :
                  stats.errors.recent_critical[i] =
                      <<LevelSearch(last[i]).level,
                        IF Len(last[i]) > 120 THEN SubSeq(last[i], 1, 120) ELSE last[i]>>

\* The same of the Snapshots of an access log with a record in it.
RecentCriticalOfRequests == (read # None /\ Records # <<>>) => RecentCriticalExact

\* A Snapshot with five lines in recent_critical of more than five that are
\* critical, and one with a critical line cut to 120 characters.
MoreThanFiveCritical ==
    /\ read # None
    /\ Len(stats.errors.recent_critical) = 5
    /\ Len(SelectSeq(ErrorTail, IsCritical)) > 5

CriticalLineCut ==
    /\ read # None
    /\ stats.errors.recent_critical # <<>>
    /\ Len(ErrorTail[1]) > 120
    /\ Len(stats.errors.recent_critical[1][2]) = 120

\* The sum of the values of a counter, or of the second column of a list.
RECURSIVE SumValues(_)
SumValues(d) == IF d = <<>> THEN 0 ELSE Head(d)[2] + SumValues(Tail(d))

\* The counts of a ranked list sum to at most n, and to n exactly when the
\* counter it is cut from has at most K keys.
ListedOf(list, d, K, n) ==
    /\ SumValues(list) <= n
    /\ (SumValues(list) = n) <=> (Len(d) <= K)

\* C16, as amended: for a non-empty batch the counters of get_stats per IP,
\* path, status, method and agent each sum to total_requests, unique_ips is
\* the number of distinct IPs, total_bandwidth is the sum of the bandwidth
\* of all paths, and the hourly counts sum to the number of records with an
\* hour, at most total_requests. The ranked lists of the Snapshot, cut to
\* K entries, sum to at most total_requests, to total_requests exactly
\* when there are at most K distinct keys; the bandwidth entries sum to
\* total_bandwidth when there are at most 15 paths.
CountersConserved ==
    (read # None /\ Records # <<>>) =>
        LET rs == Records
            c  == CountEntries(rs, NoCounts)
            n  == stats.total_requests
        IN  /\ n = Len(rs)
            /\ SumValues(c.ips) = n
            /\ SumValues(c.pages) = n
            /\ SumValues(c.status_codes) = n
            /\ SumValues(c.methods) = n
            /\ SumValues(c.agents) = n
            /\ stats.unique_ips = Cardinality({rs[i].ip : i \in 1..Len(rs)})
            /\ stats.total_bandwidth = SumValues(c.bandwidth_by_page)
            /\ SumValues(stats.hourly) =
                  Cardinality({i \in 1..Len(rs) : Contains(rs[i].time, <<":">>)})
            /\ SumValues(stats.hourly) <= n
            /\ ListedOf(stats.top_ips, c.ips, 15, n)
            /\ ListedOf(stats.top_pages, c.pages, 15, n)
            /\ ListedOf(stats.status_codes, c.status_codes, 10, n)
            /\ ListedOf(stats.methods, c.methods, 10, n)
            /\ ListedOf(stats.top_agents, c.agents, 10, n)
            /\ Len(c.bandwidth_by_page) <= 15 =>
                  stats.total_bandwidth = SumValues(stats.bandwidth_by_page)

\* C16, as stated: in every Snapshot of a non-empty batch the per-IP,
\* per-path, per-status, per-method and per-agent counts each sum to
\* total_requests, unique_ips is the number of distinct IPs,
\* total_bandwidth is the sum of the per-path bandwidth sums, and the
\* hourly counts sum to at most total_requests.
SnapshotCountsConserved ==
    (read # None /\ Records # <<>>) =>
        /\ SumValues(stats.top_ips) = stats.total_requests
        /\ SumValues(stats.top_pages) = stats.total_requests
        /\ SumValues(stats.status_codes) = stats.total_requests
        /\ SumValues(stats.methods) = stats.total_requests
        /\ SumValues(stats.top_agents) = stats.total_requests
        /\ stats.unique_ips = Cardinality({Records[i].ip : i \in 1..Len(Records)})
        /\ stats.total_bandwidth = SumValues(stats.bandwidth_by_page)
        /\ SumValues(stats.hourly) <= stats.total_requests

\* A Snapshot of more than 15 distinct IPs, some seen more than once.
MoreKeysThanListed ==
    /\ read # None
    /\ stats.unique_ips > 15
    /\ stats.total_requests > stats.unique_ips
    /\ SumValues(stats.top_ips) < stats.total_requests

\* A Snapshot with a record left out of the hourly histogram only.
RecordWithoutHour ==
    /\ read # None
    /\ stats.total_requests = 2
    /\ SumValues(stats.hourly) = 1
    /\ SumValues(stats.top_ips) = 2

=============================================================================
